---- MODULE Spec2Model ----
(***************************************************************************)
(* Model of the stark-template prover and verifier binaries                *)
(* (src/src/prover.rs, src/src/verifier.rs) and of the trace builder, the  *)
(* constraint definition and the record codec they share (src/src/air.rs). *)
(*                                                                         *)
(* Integers are scaled: u128 is an unsigned word of WordBits bits and the  *)
(* f128 field (modulus 2^128 - 45*2^40 + 1) is the ring of integers modulo *)
(* M = 2^WordBits - 45.  As in the program, the modulus lies a little      *)
(* below the word range, so a word may hold a value that is not a          *)
(* canonical field element, and the row count stays below that gap.        *)
(***************************************************************************)
EXTENDS Integers, Sequences, FiniteSets

(***************************************************************************)
(* Bounds of the model.                                                    *)
(***************************************************************************)
WordBits == 8
MaxN == 16
MaxStart == 46
MaxProofLen == 2
MaxWidth == 5

(***************************************************************************)
(* Unsigned words (u128) and the base field (winter_math f128).            *)
(***************************************************************************)
U128 == 2 ^ WordBits

M == U128 - 45

Field == 0 .. (M - 1)

ZERO == 0

ONE == 1

\* BaseElement::new / BaseElement::from(u128): one conditional subtraction.
BaseElement_new(value) == IF value < M THEN value ELSE value - M

FAdd(a, b) == (a + b) % M

FSub(a, b) == (a + M - b) % M

FMul(a, b) == (a * b) % M

\* Unsigned word arithmetic.  v is the wrapped result (a build without
\* overflow checks), ovf tells whether the exact result left the word range
\* (a build with overflow checks panics there).
UAdd(a, b) == [v |-> (a + b) % U128, ovf |-> a + b >= U128]

USub(a, b) == [v |-> (a + U128 - b) % U128, ovf |-> a < b]

(***************************************************************************)
(* build_trace: the two closures handed to TraceTable::fill.               *)
(***************************************************************************)
trace_width == 4

MIN_TRACE_LENGTH == 8

RECURSIVE IsPowerOfTwo(_)
IsPowerOfTwo(k) == IF k <= 1 THEN k = 1 ELSE k % 2 = 0 /\ IsPowerOfTwo(k \div 2)

\* TraceTable::new(trace_width, arg.n) asserts the length is a power of two
\* of at least MIN_TRACE_LENGTH rows.
ValidLength(n) == n >= MIN_TRACE_LENGTH /\ IsPowerOfTwo(n)

\* The indicator with a non-strict comparison.
Indicator_Mut(lower, upper) == IF lower >= upper THEN ONE ELSE ZERO

\* The indicator written to column 3: a comparison of the unreduced words.
Indicator(lower, upper) == IF lower > upper THEN ONE ELSE ZERO

\* The init closure: row 0 written into the zeroed state buffer.
InitRow(start, n, state) ==
    LET a == start
        b == n
        s0 == IF a > b THEN BaseElement_new(a - b) ELSE BaseElement_new(b - a)
        lo == UAdd(a, 1)
        up == USub(b, 1)
    IN  [state |-> [state EXCEPT ![1] = s0,
                                 ![2] = BaseElement_new(lo.v),
                                 ![3] = BaseElement_new(up.v),
                                 ![4] = Indicator(lo.v, up.v)],
         lower |-> lo.v, upper |-> up.v,
         ovf |-> lo.ovf \/ up.ovf]

\* The step counter advanced one too far.
NextStep_Mut(last_step) == last_step + 3

\* The step counter of the update closure.
NextStep(last_step) == last_step + 2

\* Column 0 as the update closure recomputes it from the row's columns 1..3.
UpdateCol0(s) ==
    FAdd(FMul(s[4], FSub(s[2], s[3])), FMul(FSub(ONE, s[4]), FSub(s[3], s[2])))

\* The update closure with arg.start left out of the lower bound it writes.
UpdateRow_Mut(start, n, last_step, state) ==
    LET next == NextStep(last_step)
        lo == UAdd(start, next)
        up == USub(n, next)
    IN  [state |-> [state EXCEPT ![1] = UpdateCol0(state),
                                 ![2] = BaseElement_new(next),
                                 ![3] = BaseElement_new(up.v),
                                 ![4] = Indicator(lo.v, up.v)],
         lower |-> lo.v, upper |-> up.v,
         ovf |-> lo.ovf \/ up.ovf]

\* The update closure: the row after `state`, which is row last_step.
UpdateRow(start, n, last_step, state) ==
    LET next == NextStep(last_step)
        lo == UAdd(start, next)
        up == USub(n, next)
    IN  [state |-> [state EXCEPT ![1] = UpdateCol0(state),
                                 ![2] = BaseElement_new(lo.v),
                                 ![3] = BaseElement_new(up.v),
                                 ![4] = Indicator(lo.v, up.v)],
         lower |-> lo.v, upper |-> up.v,
         ovf |-> lo.ovf \/ up.ovf]

(***************************************************************************)
(* get_pub_inputs, FreshAir.                                               *)
(***************************************************************************)
\* TraceTable::get(column, step), both counted from 0.
TraceGet(t, column, step) == t[step + 1][column + 1]

PublicInputs(start, result) == [start |-> start, result |-> result]

\* get_pub_inputs reading the result one row early.
get_pub_inputs_Mut(t) ==
    LET last_step == Len(t) - 2
    IN  PublicInputs(TraceGet(t, 0, 0), TraceGet(t, 0, last_step))

get_pub_inputs(t) ==
    LET last_step == Len(t) - 1
    IN  PublicInputs(TraceGet(t, 0, 0), TraceGet(t, 0, last_step))

\* The width assertion as an upper limit only.
WidthOk_Mut(width) == width <= 4

\* assert_eq!(4, trace_info.width())
WidthOk(width) == width = 4

FreshAir_new(width, length, pub_inputs) ==
    [width |-> width, trace_length |-> length, num_assertions |-> 2,
     start |-> pub_inputs.start, result |-> pub_inputs.result]

\* evaluate_transition with the two branches of the rule exchanged.
evaluate_transition_Mut(current, next) ==
    LET nxt == FAdd(FMul(current[4], FSub(current[3], current[2])),
                    FMul(FSub(ONE, current[4]), FSub(current[2], current[3])))
    IN  FSub(next[1], nxt)

\* result[0] of evaluate_transition on the frame (current, next).
evaluate_transition(current, next) ==
    LET nxt == FAdd(FMul(current[4], FSub(current[2], current[3])),
                    FMul(FSub(ONE, current[4]), FSub(current[3], current[2])))
    IN  FSub(next[1], nxt)

\* Assertion::single(column, step, value)
Assertion_single(column, step, value) ==
    [column |-> column, step |-> step, value |-> value]

\* get_assertions with the last-row assertion one row early.
get_assertions_Mut(a) ==
    LET last_step == a.trace_length - 2
    IN  << Assertion_single(0, 0, a.start),
           Assertion_single(0, last_step, a.result) >>

get_assertions(a) ==
    LET last_step == a.trace_length - 1
    IN  << Assertion_single(0, 0, a.start),
           Assertion_single(0, last_step, a.result) >>

\* What the engine enforces for one assertion on a trace.
AssertionHolds(a, t) ==
    /\ a.step + 1 \in 1 .. Len(t)
    /\ TraceGet(t, a.column, a.step) = a.value

\* Trace::validate, run by Prover::prove in a build with debug assertions.
TraceValid(air, t) ==
    /\ \A k \in 1 .. Len(get_assertions(air)) : AssertionHolds(get_assertions(air)[k], t)
    /\ \A r \in 1 .. (Len(t) - 1) : evaluate_transition(t[r], t[r + 1]) = ZERO

(***************************************************************************)
(* The record codec: to_data / from_data.  A string is a sequence of       *)
(* one-character strings.                                                  *)
(***************************************************************************)
Digits == << "0", "1", "2", "3", "4", "5", "6", "7", "8", "9" >>

\* Display of an unsigned integer: its decimal digits, no leading zero.
RECURSIVE ToString(_)
ToString(v) ==
    IF v < 10 THEN << Digits[v + 1] >>
    ELSE ToString(v \div 10) \o << Digits[(v % 10) + 1] >>

\* Display for BaseElement prints the canonical integer of the element.
BaseElement_to_string(e) == ToString(e)

DigitValue(c) ==
    IF \E d \in 1 .. 10 : Digits[d] = c
    THEN (CHOOSE d \in 1 .. 10 : Digits[d] = c) - 1
    ELSE -1

\* The digit loop of u128::from_str: checked multiply by 10, checked add.
RECURSIVE ParseDigits(_, _)
ParseDigits(s, acc) ==
    IF s = << >> THEN [ok |-> TRUE, v |-> acc]
    ELSE IF DigitValue(Head(s)) < 0 THEN [ok |-> FALSE, v |-> 0]
    ELSE IF acc * 10 + DigitValue(Head(s)) >= U128 THEN [ok |-> FALSE, v |-> 0]
    ELSE ParseDigits(Tail(s), acc * 10 + DigitValue(Head(s)))

\* str::parse::<u128>: empty input and a lone sign are errors, one leading
\* "+" is accepted, every other character must be a decimal digit.
ParseU128(s) ==
    IF s = << >> THEN [ok |-> FALSE, v |-> 0]
    ELSE IF Head(s) = "+"
         THEN IF Tail(s) = << >> THEN [ok |-> FALSE, v |-> 0]
              ELSE ParseDigits(Tail(s), 0)
         ELSE ParseDigits(s, 0)

Alphabet ==
    <<"A", "B", "C", "D", "E", "F", "G", "H", "I", "J", "K", "L", "M", "N", "O", "P",
       "Q", "R", "S", "T", "U", "V", "W", "X", "Y", "Z", "a", "b", "c", "d", "e", "f",
       "g", "h", "i", "j", "k", "l", "m", "n", "o", "p", "q", "r", "s", "t", "u", "v",
       "w", "x", "y", "z", "0", "1", "2", "3", "4", "5", "6", "7", "8", "9", "+", "/" >>

Pad == "="

\* base64::encode, standard alphabet with padding.
RECURSIVE Base64Encode(_)
Base64Encode(b) ==
    IF Len(b) = 0 THEN << >>
    ELSE IF Len(b) = 1
         THEN << Alphabet[(b[1] \div 4) + 1], Alphabet[((b[1] % 4) * 16) + 1], Pad, Pad >>
    ELSE IF Len(b) = 2
         THEN << Alphabet[(b[1] \div 4) + 1],
                 Alphabet[((b[1] % 4) * 16 + (b[2] \div 16)) + 1],
                 Alphabet[((b[2] % 16) * 4) + 1], Pad >>
    ELSE << Alphabet[(b[1] \div 4) + 1],
            Alphabet[((b[1] % 4) * 16 + (b[2] \div 16)) + 1],
            Alphabet[((b[2] % 16) * 4 + (b[3] \div 64)) + 1],
            Alphabet[(b[3] % 64) + 1] >>
         \o Base64Encode(SubSeq(b, 4, Len(b)))

SymbolValue(c) ==
    IF \E k \in 1 .. 64 : Alphabet[k] = c
    THEN (CHOOSE k \in 1 .. 64 : Alphabet[k] = c) - 1
    ELSE -1

\* base64::decode on padded input: groups of four symbols, padding only at
\* the end of the last group, no stray bits in the last symbol.
RECURSIVE Base64Decode(_)
Base64Decode(s) ==
    IF Len(s) = 0 THEN [ok |-> TRUE, bytes |-> << >>]
    ELSE IF Len(s) < 4 THEN [ok |-> FALSE, bytes |-> << >>]
    ELSE LET v1 == SymbolValue(s[1])
             v2 == SymbolValue(s[2])
             v3 == SymbolValue(s[3])
             v4 == SymbolValue(s[4])
             rest == Base64Decode(SubSeq(s, 5, Len(s)))
         IN  IF v1 < 0 \/ v2 < 0 THEN [ok |-> FALSE, bytes |-> << >>]
             ELSE IF s[3] = Pad
                  THEN IF s[4] = Pad /\ Len(s) = 4 /\ v2 % 16 = 0
                       THEN [ok |-> TRUE, bytes |-> << v1 * 4 + (v2 \div 16) >>]
                       ELSE [ok |-> FALSE, bytes |-> << >>]
             ELSE IF v3 < 0 THEN [ok |-> FALSE, bytes |-> << >>]
             ELSE IF s[4] = Pad
                  THEN IF Len(s) = 4 /\ v3 % 4 = 0
                       THEN [ok |-> TRUE,
                             bytes |-> << v1 * 4 + (v2 \div 16),
                                          (v2 % 16) * 16 + (v3 \div 4) >>]
                       ELSE [ok |-> FALSE, bytes |-> << >>]
             ELSE IF v4 < 0 \/ ~rest.ok THEN [ok |-> FALSE, bytes |-> << >>]
             ELSE [ok |-> TRUE,
                   bytes |-> << v1 * 4 + (v2 \div 16),
                                (v2 % 16) * 16 + (v3 \div 4),
                                (v3 % 4) * 64 + v4 >> \o rest.bytes]

Data(start, result, proof) == [start |-> start, result |-> result, proof |-> proof]

\* Data::default(), which confy::load_path returns when the file is missing.
Data_default == Data(<< "0" >>, << "0" >>, << >>)

\* to_data with the two public inputs exchanged.
to_data_Mut(proof, public_input) ==
    Data(BaseElement_to_string(public_input.result),
         BaseElement_to_string(public_input.start),
         Base64Encode(proof))

to_data(proof, public_input) ==
    Data(BaseElement_to_string(public_input.start),
         BaseElement_to_string(public_input.result),
         Base64Encode(proof))

\* from_data: each unwrap() panics on an Err; ok is FALSE in that case.
from_data(data) ==
    LET s == ParseU128(data.start)
        r == ParseU128(data.result)
        p == Base64Decode(data.proof)
    IN  IF s.ok /\ r.ok /\ p.ok
        THEN [ok |-> TRUE,
              pub |-> PublicInputs(BaseElement_new(s.v), BaseElement_new(r.v)),
              bytes |-> p.bytes]
        ELSE [ok |-> FALSE, pub |-> PublicInputs(ZERO, ZERO), bytes |-> << >>]

(***************************************************************************)
(* State of one run of the prover binary, of the verifier binary, or of    *)
(* the codec applied to given inputs.                                      *)
(***************************************************************************)
VARIABLES
    role,        \* "prover", "verifier" or "codec"
    build,       \* "debug": overflow checks and debug assertions; "release": neither
    arg,         \* InputArg: [start, n]
    pc,          \* position in main
    fault,       \* what ended the run in a panic, "none" otherwise
    state,       \* the row buffer of TraceTable::fill
    step,        \* the loop index of TraceTable::fill
    trace,       \* the rows written so far
    bnd,         \* the words (start + next, n - next) of the last row written
    ovf,         \* some word operation of build_trace left the word range
    runs,        \* build_trace run in step on every configuration: [prev, state, ovf]
    pub_inputs,  \* PublicInputs
    header,      \* trace info carried by the proof: [width, length]
    air,         \* the FreshAir built by the engine
    proof_bytes, \* the serialized proof
    data,        \* the Data record in memory
    file,        \* the record file: [exists, data]
    decoded,     \* what from_data returned
    verdict,     \* what verify returned: "none", "Ok" or "Err"
    message      \* what the verifier logged

vars == << role, build, arg, pc, fault, state, step, trace, bnd, ovf, runs, pub_inputs,
           header, air, proof_bytes, data, file, decoded, verdict, message >>

NoPub == PublicInputs(ZERO, ZERO)

NoHeader == [width |-> 0, length |-> 0]

NoAir == FreshAir_new(0, 0, NoPub)

NoData == Data(<< >>, << >>, << >>)

NoFile == [exists |-> FALSE, data |-> NoData]

NoDecoded == [ok |-> FALSE, pub |-> NoPub, bytes |-> << >>]

NoBnd == [lower |-> 0, upper |-> 0]

Starts == (0 .. MaxStart) \cup ((M - MaxN - 2) .. (U128 - 1))

Ns == 0 .. MaxN

ByteSamples == {0, 77, 255}

ByteSeqs == UNION {[1 .. k -> ByteSamples] : k \in 0 .. MaxProofLen}

\* Decimal strings a record file may hold: field elements, integers at and
\* above the modulus, at and above the word range, and malformed text.
FileNumbers ==
    {ToString(v) : v \in {0, 1, M - 1, M, M + 1, U128 - 1, U128, U128 + 1}}
        \cup {<< >>, << "a" >>, << "+", "7" >>, << "-", "1" >>, << "0", "7" >>}

\* base64 strings a record file may hold: encodings, a character outside the
\* alphabet, a lone symbol, a last symbol with stray bits.
FileProofs ==
    {Base64Encode(b) : b \in ByteSeqs}
        \cup {<< "!" >>, << "A" >>, << "A", "B", Pad, Pad >>}

Files ==
    {NoFile} \cup {[exists |-> TRUE, data |-> Data(s, r, p)] :
                     s \in FileNumbers, r \in FileNumbers, p \in FileProofs}

CodecElements == {0, 1, 9, 10, 99, 100, M - 2, M - 1}

Configs == [start : Starts, n : {n \in Ns : ValidLength(n)}]

\* build_trace on configuration c, in step with the run: its row 0.
FirstRow(c) ==
    LET r == InitRow(c.start, c.n, [k \in 1 .. trace_width |-> ZERO])
    IN  [prev |-> r.state, state |-> r.state, rows |-> 1, ovf |-> r.ovf]

\* The row after row last_step of configuration c, while its fill lasts.
NextRow(c, last_step, run) ==
    IF last_step < c.n - 1
    THEN LET r == UpdateRow(c.start, c.n, last_step, run.state)
         IN  [prev |-> run.state, state |-> r.state, rows |-> run.rows + 1,
              ovf |-> run.ovf \/ r.ovf]
    ELSE run

InitCommon ==
    /\ fault = "none"
    /\ state = << >>
    /\ step = 0
    /\ trace = << >>
    /\ bnd = NoBnd
    /\ ovf = FALSE
    /\ runs = << >>
    /\ header = NoHeader
    /\ air = NoAir
    /\ data = NoData
    /\ decoded = NoDecoded
    /\ verdict = "none"
    /\ message = "none"

InitProver ==
    /\ role = "prover"
    /\ build \in {"debug", "release"}
    /\ arg \in [start : Starts, n : Ns]
    /\ pc = "cli"
    /\ pub_inputs = NoPub
    /\ proof_bytes = << >>
    /\ file = NoFile
    /\ InitCommon

InitVerifier ==
    /\ role = "verifier"
    /\ build = "release"
    /\ arg = [start |-> 0, n |-> 0]
    /\ pc = "vcli"
    /\ pub_inputs = NoPub
    /\ proof_bytes = << >>
    /\ file \in Files
    /\ InitCommon

InitCodec ==
    /\ role = "codec"
    /\ build = "release"
    /\ arg = [start |-> 0, n |-> 0]
    /\ pc = "cin"
    /\ pub_inputs \in [start : Field, result : CodecElements]
    /\ proof_bytes \in ByteSeqs
    /\ file = NoFile
    /\ InitCommon

Init == InitProver \/ InitVerifier

Panic(what) ==
    /\ pc' = "panic"
    /\ fault' = what

(***************************************************************************)
(* prover.rs: main -> prove -> build_trace, get_pub_inputs, Prover::prove, *)
(* to_data, confy::store_path.                                             *)
(***************************************************************************)
\* TraceTable::new and the zeroed row buffer of TraceTable::fill.
NewTrace ==
    /\ pc = "cli"
    /\ IF ValidLength(arg.n)
       THEN /\ pc' = "fill0"
            /\ state' = [k \in 1 .. trace_width |-> ZERO]
            /\ fault' = fault
       ELSE /\ Panic("trace_new")
            /\ state' = state
    /\ UNCHANGED << role, build, arg, step, trace, bnd, ovf, runs, pub_inputs, header, air,
                    proof_bytes, data, file, decoded, verdict, message >>

\* fill: init(&mut state); update_row(0, &state).
FillInit ==
    /\ pc = "fill0"
    /\ LET r == InitRow(arg.start, arg.n, state)
       IN  /\ ovf' = r.ovf
           /\ IF r.ovf /\ build = "debug"
              THEN /\ Panic("overflow")
                   /\ UNCHANGED << state, trace, bnd >>
              ELSE /\ state' = r.state
                   /\ trace' = << r.state >>
                   /\ bnd' = [lower |-> r.lower, upper |-> r.upper]
                   /\ pc' = IF arg.n - 1 > 0 THEN "fill" ELSE "built"
                   /\ fault' = fault
    /\ step' = 0
    /\ runs' = [c \in Configs |-> FirstRow(c)]
    /\ UNCHANGED << role, build, arg, pub_inputs, header, air, proof_bytes, data, file,
                    decoded, verdict, message >>

\* fill: for i in 0..length-1 { update(i, &mut state); update_row(i+1, &state) }.
FillUpdate ==
    /\ pc = "fill"
    /\ step < arg.n - 1
    /\ LET r == UpdateRow(arg.start, arg.n, step, state)
       IN  /\ ovf' = (ovf \/ r.ovf)
           /\ IF r.ovf /\ build = "debug"
              THEN /\ Panic("overflow")
                   /\ UNCHANGED << state, trace, bnd, step >>
              ELSE /\ state' = r.state
                   /\ trace' = Append(trace, r.state)
                   /\ bnd' = [lower |-> r.lower, upper |-> r.upper]
                   /\ step' = step + 1
                   /\ pc' = IF step + 1 < arg.n - 1 THEN "fill" ELSE "built"
                   /\ fault' = fault
    /\ runs' = [c \in Configs |-> NextRow(c, step, runs[c])]
    /\ UNCHANGED << role, build, arg, pub_inputs, header, air, proof_bytes, data, file,
                    decoded, verdict, message >>

\* prover.get_pub_inputs(&trace)
GetPubInputs ==
    /\ pc = "built"
    /\ pub_inputs' = get_pub_inputs(trace)
    /\ pc' = "pubin"
    /\ runs' = << >>
    /\ UNCHANGED << role, build, arg, fault, state, step, trace, bnd, ovf, header, air,
                    proof_bytes, data, file, decoded, verdict, message >>

\* prover.prove(trace).unwrap(): the engine builds the AIR from the trace's
\* info and the public inputs, validates the trace in a debug build, and
\* returns a proof or an error.
Prove ==
    /\ pc = "pubin"
    /\ LET info == [width |-> Len(trace[1]), length |-> Len(trace)]
           a == FreshAir_new(info.width, info.length, get_pub_inputs(trace))
       IN  IF ~WidthOk(info.width)
           THEN /\ Panic("air_width")
                /\ UNCHANGED << header, air, proof_bytes >>
           ELSE IF build = "debug" /\ ~TraceValid(a, trace)
           THEN /\ Panic("validate")
                /\ air' = a
                /\ header' = info
                /\ UNCHANGED proof_bytes
           ELSE /\ air' = a
                /\ header' = info
                /\ \/ /\ proof_bytes' \in (ByteSeqs \ {<< >>})
                      /\ pc' = "proved"
                      /\ fault' = fault
                   \/ /\ Panic("prove")
                      /\ UNCHANGED proof_bytes
    /\ UNCHANGED << role, build, arg, state, step, trace, bnd, ovf, runs, pub_inputs, data,
                    file, decoded, verdict, message >>

\* to_data(proof_bytes, output.public_input)
ToData ==
    /\ pc = "proved"
    /\ data' = to_data(proof_bytes, pub_inputs)
    /\ pc' = "encoded"
    /\ UNCHANGED << role, build, arg, fault, state, step, trace, bnd, ovf, runs, pub_inputs,
                    header, air, proof_bytes, file, decoded, verdict, message >>

\* confy::store_path(path, data).unwrap()
Store ==
    /\ pc = "encoded"
    /\ \/ /\ file' = [exists |-> TRUE, data |-> data]
          /\ pc' = "stored"
          /\ fault' = fault
       \/ /\ Panic("store")
          /\ file' = file
    /\ UNCHANGED << role, build, arg, state, step, trace, bnd, ovf, runs, pub_inputs, header,
                    air, proof_bytes, data, decoded, verdict, message >>

(***************************************************************************)
(* verifier.rs: main.                                                      *)
(***************************************************************************)
\* confy::load_path(path).unwrap(): the stored record, the default record
\* when there is no file, or an error.
Load ==
    /\ pc = "vcli"
    /\ \/ /\ data' = IF file.exists THEN file.data ELSE Data_default
          /\ pc' = "loaded"
          /\ fault' = fault
       \/ /\ Panic("load")
          /\ data' = data
    /\ UNCHANGED << role, build, arg, state, step, trace, bnd, ovf, runs, pub_inputs, header,
                    air, proof_bytes, file, decoded, verdict, message >>

\* from_data(data)
FromData ==
    /\ pc = "loaded"
    /\ LET d == from_data(data)
       IN  IF d.ok
           THEN /\ decoded' = d
                /\ pub_inputs' = d.pub
                /\ proof_bytes' = d.bytes
                /\ pc' = "decoded"
                /\ fault' = fault
           ELSE /\ Panic("codec")
                /\ UNCHANGED << decoded, pub_inputs, proof_bytes >>
    /\ UNCHANGED << role, build, arg, state, step, trace, bnd, ovf, runs, header, air, data,
                    file, verdict, message >>

\* StarkProof::from_bytes(&proof_bytes).unwrap(): a proof, carrying the
\* trace info its producer wrote, or an error.
FromBytes ==
    /\ pc = "decoded"
    /\ \/ /\ proof_bytes # << >>
          /\ header' \in [width : 1 .. MaxWidth,
                          length : {n \in Ns : ValidLength(n)}]
          /\ pc' = "parsed"
          /\ fault' = fault
       \/ /\ Panic("from_bytes")
          /\ header' = header
    /\ UNCHANGED << role, build, arg, state, step, trace, bnd, ovf, runs, pub_inputs, air,
                    proof_bytes, data, file, decoded, verdict, message >>

\* main's match with the two arms exchanged.
VerifierMessage_Mut(result) ==
    IF result = "Ok" THEN "Failed to verify proof" ELSE "Proof verified"

\* The two arms of main's match on verify's result.
VerifierMessage(result) ==
    IF result = "Ok" THEN "Proof verified" ELSE "Failed to verify proof"

\* verify::<FreshAir>(proof, pub_inputs): the engine builds the AIR from the
\* proof's trace info, then accepts or rejects; main logs the result.
Verify ==
    /\ pc = "parsed"
    /\ IF ~WidthOk(header.width)
       THEN /\ Panic("air_width")
            /\ UNCHANGED << air, verdict, message >>
       ELSE /\ air' = FreshAir_new(header.width, header.length, pub_inputs)
            /\ verdict' \in {"Ok", "Err"}
            /\ message' = VerifierMessage(verdict')
            /\ pc' = "done"
            /\ fault' = fault
    /\ UNCHANGED << role, build, arg, state, step, trace, bnd, ovf, runs, pub_inputs, header,
                    proof_bytes, data, file, decoded >>

Next ==
    \/ NewTrace
    \/ FillInit
    \/ FillUpdate
    \/ GetPubInputs
    \/ Prove
    \/ ToData
    \/ Store
    \/ Load
    \/ FromData
    \/ FromBytes
    \/ Verify

Spec == Init /\ [][Next]_vars

(***************************************************************************)
(* The codec applied to given public inputs and proof bytes.               *)
(***************************************************************************)
CodecEncode ==
    /\ pc = "cin"
    /\ data' = to_data(proof_bytes, pub_inputs)
    /\ pc' = "cenc"
    /\ UNCHANGED << role, build, arg, fault, state, step, trace, bnd, ovf, runs, pub_inputs,
                    header, air, proof_bytes, file, decoded, verdict, message >>

CodecDecode ==
    /\ pc = "cenc"
    /\ decoded' = from_data(data)
    /\ pc' = "cdec"
    /\ UNCHANGED << role, build, arg, fault, state, step, trace, bnd, ovf, runs, pub_inputs,
                    header, air, proof_bytes, data, file, verdict, message >>

NextCodec == CodecEncode \/ CodecDecode

SpecCodec == InitCodec /\ [][NextCodec]_vars

(***************************************************************************)
(* Properties.                                                             *)
(***************************************************************************)
TraceBuilt == role = "prover" /\ pc \in {"built", "pubin", "proved", "encoded", "stored"}

\* Every word operation of build_trace stays within the word range.
WordsInRange == arg.n >= 1 /\ arg.start + arg.n <= U128 - 1

\* C1: for every configuration whose unsigned arithmetic stays in range and
\* every adjacent row pair (r, r+1) of the trace build_trace writes,
\* evaluate_transition on (row r, row r+1) yields the zero field element:
\* column 0 of row r+1 is col3*(col1-col2) + (1-col3)*(col2-col1) of row r.
C1_TransitionResidualZero ==
    (role = "prover" /\ WordsInRange) =>
        \A r \in 1 .. (Len(trace) - 1) :
            /\ evaluate_transition(trace[r], trace[r + 1]) = ZERO
            /\ trace[r + 1][1] =
                   (trace[r][4] * (trace[r][2] - trace[r][3])
                      + (1 - trace[r][4]) * (trace[r][3] - trace[r][2])) % M

\* A finished in-range trace in which the indicator takes both values.
C1_Witness ==
    /\ TraceBuilt
    /\ WordsInRange
    /\ \E r \in 1 .. Len(trace) : trace[r][4] = ZERO
    /\ \E r \in 1 .. Len(trace) : trace[r][4] = ONE

\* C2: decoding the record that to_data made of any proof bytes and any pair
\* of field elements succeeds and returns the same pair and the same bytes.
C2_CodecRoundTrip ==
    (role = "codec" /\ pc = "cdec") =>
        /\ decoded.ok
        /\ decoded.pub.start = pub_inputs.start
        /\ decoded.pub.result = pub_inputs.result
        /\ decoded.bytes = proof_bytes

\* A round trip of a three-digit start, a different result and a proof of
\* the greatest length.
C2_Witness ==
    /\ role = "codec"
    /\ pc = "cdec"
    /\ pub_inputs.start >= 100
    /\ pub_inputs.result # pub_inputs.start
    /\ Len(proof_bytes) = MaxProofLen

\* C3: get_pub_inputs returns column 0 of row 0 as start and column 0 of the
\* final row as result, and leaves the trace as build_trace returned it.
C3_PubInputsAreBoundary ==
    [][(role = "prover" /\ pc = "built" /\ pc' = "pubin") =>
          /\ pub_inputs'.start = trace[1][1]
          /\ pub_inputs'.result = trace[arg.n][1]
          /\ Len(trace) = arg.n
          /\ trace' = trace]_vars

\* Public inputs taken from a trace whose first and last rows differ from
\* the row before the last in column 0.
C3_Witness ==
    /\ role = "prover"
    /\ pc = "pubin"
    /\ pub_inputs.start = trace[1][1]
    /\ pub_inputs.result = trace[arg.n][1]
    /\ trace[arg.n][1] # trace[arg.n - 1][1]
    /\ trace[arg.n][1] # trace[1][1]

\* The integer a string of decimal digits writes; -1 for any other string.
RECURSIVE DecimalValue(_, _)
DecimalValue(s, acc) ==
    IF s = << >> THEN acc
    ELSE IF DigitValue(Head(s)) < 0 THEN -1
    ELSE DecimalValue(Tail(s), acc * 10 + DigitValue(Head(s)))

Written(s) == IF s = << >> THEN -1 ELSE DecimalValue(s, 0)

\* C4: from_data never yields a wrapped or reduced field element: on a record
\* whose start or result string writes an integer at or above the field
\* modulus it fails, so whenever it returns, both strings write integers
\* below the modulus.
C4_NoWrappedElement ==
    (role = "verifier" /\ pc \in {"decoded", "parsed", "done"}) =>
        /\ Written(data.start) < M
        /\ Written(data.result) < M

\* C5: a FreshAir is never built for a trace width other than the 4 columns
\* build_trace produces: construction with another width panics at once, and
\* construction for a trace from build_trace passes the width check.
C5_WidthChecked ==
    /\ air # NoAir => air.width = trace_width
    /\ fault = "air_width" => (air = NoAir /\ header.width # trace_width /\ role = "verifier")
    /\ (role = "verifier" /\ header # NoHeader /\ header.width # trace_width) =>
           pc \in {"parsed", "panic"}
    /\ (role = "prover" /\ pc \in {"proved", "encoded", "stored"}) =>
           (air # NoAir /\ air.width = Len(trace[1]))

\* A verifier run that panicked in FreshAir::new on a proof of another width.
C5_Witness ==
    /\ role = "verifier"
    /\ fault = "air_width"
    /\ header.width # trace_width

\* C6: get_assertions declares exactly two assertions, (column 0, row 0) =
\* start and (column 0, row trace_length-1) = result; the trace build_trace
\* wrote satisfies both under the public inputs get_pub_inputs took from it,
\* and fails the last-row assertion under any other result (checked where
\* the engine has just built the AIR; nothing it reads changes afterwards).
C6_Assertions ==
    (role = "prover" /\ air # NoAir) =>
        LET asr == get_assertions(air)
        IN  /\ Len(asr) = 2
            /\ Len(asr) = air.num_assertions
            /\ asr[1] = [column |-> 0, step |-> 0, value |-> pub_inputs.start]
            /\ asr[2] = [column |-> 0, step |-> arg.n - 1, value |-> pub_inputs.result]
            /\ AssertionHolds(asr[1], trace)
            /\ AssertionHolds(asr[2], trace)
            /\ pc \in {"proved", "panic"} =>
                   \A v \in Field \ {pub_inputs.result} :
                       LET tampered == FreshAir_new(air.width, air.trace_length,
                                                    PublicInputs(pub_inputs.start, v))
                       IN  ~AssertionHolds(get_assertions(tampered)[2], trace)

\* An AIR built by the prover for a trace whose result differs from its start.
C6_Witness ==
    /\ role = "prover"
    /\ air # NoAir
    /\ pc = "proved"
    /\ pub_inputs.result # pub_inputs.start

\* C7: in the verifier run, a proof that deserializes and is rejected by
\* verify ends in normal termination with the "Failed to verify proof"
\* message; that message is logged in no other case, neither on the panic
\* paths of loading, decoding and deserializing nor for an accepted proof.
C7_RejectionIsReported ==
    role = "verifier" =>
        /\ verdict = "Err" =>
               (pc = "done" /\ fault = "none" /\ message = "Failed to verify proof")
        /\ message = "Failed to verify proof" => (verdict = "Err" /\ pc = "done")
        /\ verdict = "Ok" => message = "Proof verified"
        /\ pc = "panic" => (message = "none" /\ verdict = "none")

\* A verifier run whose proof deserialized and was rejected.
C7_Witness ==
    /\ role = "verifier"
    /\ pc = "done"
    /\ verdict = "Err"
    /\ header # NoHeader

Abs(x) == IF x < 0 THEN -x ELSE x

\* Every word of build_trace is also a canonical field element.
FieldInRange == arg.n >= 1 /\ arg.start + arg.n < M

IndicatorAndDifference ==
    /\ Len(trace) >= 1 =>
           /\ trace[1][1] = Abs(arg.start - arg.n)
           /\ trace[Len(trace)][2] = bnd.lower
           /\ trace[Len(trace)][3] = bnd.upper
    /\ \A r \in 1 .. Len(trace) :
           /\ trace[r][4] = (IF trace[r][2] > trace[r][3] THEN ONE ELSE ZERO)
           /\ r >= 2 => trace[r][1] = Abs(trace[r - 1][2] - trace[r - 1][3])

\* C8 as stated, for the configurations whose unsigned arithmetic stays in
\* range: in every row column 3 is ONE if column 1, the row's lower bound,
\* exceeds column 2, its upper bound, as integers and ZERO otherwise; column 0
\* of row i >= 1 is the absolute difference of row i-1's bounds and column 0
\* of row 0 is |start - n|.
C8_WordRangeConfigurations == (role = "prover" /\ WordsInRange) => IndicatorAndDifference

\* C8, amended: the same for the configurations whose words stay within the
\* word range and below the field modulus as well (start + n < M).
C8_IndicatorAndDifference == (role = "prover" /\ FieldInRange) => IndicatorAndDifference

\* A finished in-range trace whose bounds cross: the indicator is ZERO in
\* row 0 and ONE in the last row.
C8_Witness ==
    /\ TraceBuilt
    /\ FieldInRange
    /\ trace[1][4] = ZERO
    /\ trace[arg.n][4] = ONE
    /\ arg.start > 0

\* C10: for every n >= 1 and start with start + n within the word range, no
\* word operation of build_trace overflows or underflows: the step counter
\* of every update lies in 2 .. n, the upper bound n - next stays >= 0 and is
\* 0 in the final row, and the lower bound start + next stays <= start + n.
C10_NoOverflow ==
    (role = "prover" /\ WordsInRange) =>
        /\ ~ovf
        /\ fault # "overflow"
        /\ pc = "fill" => (2 <= NextStep(step) /\ NextStep(step) <= arg.n)
        /\ Len(trace) >= 1 =>
               /\ bnd.lower = arg.start + Len(trace)
               /\ bnd.upper = arg.n - Len(trace)
               /\ bnd.lower <= arg.start + arg.n
               /\ bnd.upper >= 0
        /\ TraceBuilt => (bnd.upper = 0 /\ trace[arg.n][3] = ZERO)

\* A finished trace, built with overflow checks, whose last lower bound is
\* the greatest word.
C10_Witness ==
    /\ TraceBuilt
    /\ build = "debug"
    /\ arg.start + arg.n = U128 - 1
    /\ bnd.lower = U128 - 1
    /\ bnd.upper = 0

\* Configuration c, run with the same build, has written row i as well.
Wrote(c, i) == runs[c].rows = i /\ (build = "debug" => ~runs[c].ovf)

\* The row just written is the one every configuration of cs writes that
\* wrote the same row before it, this configuration run again included.
NewRowDependsOnPreviousRow(cs) ==
    (role = "prover" /\ pc \in {"fill", "built"}) =>
        LET i == Len(trace)
        IN  /\ Wrote(arg, i) /\ runs[arg].state = trace[i]
            /\ i >= 2 =>
                   \A c \in cs :
                       (Wrote(c, i) /\ runs[c].prev = trace[i - 1]) =>
                           runs[c].state = trace[i]

\* C9 as stated: row 0 is given by the initial-state rule and every row
\* i > 0 is a function of row i-1 and the index i alone: any two
\* configurations that produce the same row i-1 at index i produce the same
\* row i, and building again from the same (start, n) gives the same rows.
C9_AnyConfigurations == NewRowDependsOnPreviousRow(Configs)

InRangeConfigs == {c \in Configs : c.start + c.n <= U128 - 1}

\* C9, amended: the same for any two configurations whose words stay within
\* the word range (start + n <= 2^WordBits - 1).
C9_InRangeConfigurations ==
    (arg.start + arg.n <= U128 - 1) => NewRowDependsOnPreviousRow(InRangeConfigs)

\* A row written at an index where another in-range configuration with a
\* different start has written the same row before it.
C9_Witness ==
    /\ role = "prover"
    /\ pc \in {"fill", "built"}
    /\ Len(trace) >= 2
    /\ arg.start + arg.n <= U128 - 1
    /\ \E c \in InRangeConfigs :
           /\ c.start # arg.start
           /\ Wrote(c, Len(trace))
           /\ runs[c].prev = trace[Len(trace) - 1]

====
